---------------------------- MODULE Spec2Model ----------------------------
(***************************************************************************)
(* SmartRecipeRunner (lib/recipe-runner.py): construction of the runner,   *)
(* the SSH agent bootstrap with its cascade of unlock strategies, the      *)
(* remote transport and the agent cleanup.                                 *)
(*                                                                         *)
(* Python strings whose content the code inspects (environment values,     *)
(* the announcement printed by ssh-agent) are sequences of tokens, so that *)
(* startswith / in / replace are computed on them.  None and the equally   *)
(* falsy empty string are both the empty sequence.                         *)
(***************************************************************************)
EXTENDS Integers, Sequences, FiniteSets, TLC

VARIABLES
    pc,                 \* position of the single thread of control
    argHpcSystem,       \* the hpc_system argument of __init__
    osEnv,              \* os.environ: a function from the names that are set
    hpc_system,         \* self.hpc_system
    gadi_user,          \* self.gadi_user
    gadi_key,           \* self.gadi_key
    gadi_key_passphrase,\* self.gadi_key_passphrase
    scripts_dir,        \* self.scripts_dir
    key_file_path,      \* local of _setup_ssh_agent
    temp_key_file,      \* local of _setup_ssh_agent
    agent_output,       \* local of _setup_ssh_agent: the stdout of ssh-agent -s
    files,              \* the files that exist on disk
    agents,             \* pids of the ssh-agent processes this run started
    killed,             \* pids that were sent a kill
    calls,              \* external commands invoked by the bootstrap, in order
    setupResult,        \* what _setup_ssh_agent returned: "none" before it returns
    ssh_cmd,            \* the last ssh command line built by execute_ssh_command
    ssh_ret,            \* what execute_ssh_command returned for it
    ssh_ev,             \* what the transport did with it (not visible to the code)
    remote,             \* the remote commands of the last submit_job, in order
    result,             \* what the last submit_job returned
    submits,            \* how many times submit_job has run
    recipe_dir,         \* the recipe_dir argument of __init__
    custom_recipe_dir,  \* self.custom_recipe_dir
    now,                \* the clock
    generated,          \* the calls of generate_pbs_script, in order
    run_in,             \* the arguments main() runs with
    run_ret,            \* how run() ended
    sink,               \* the lines written to GITHUB_OUTPUT
    nb_result,          \* what _execute_notebook returned
    matrix,             \* the notebooks of the test matrix, in order
    continue_on_error,  \* the continue_on_error argument of run_notebook_tests
    max_parallel,       \* its max_parallel argument
    results,            \* self.results of the NotebookRunner
    cursor,             \* where the loops of run_notebook_tests stand
    recipes,            \* the *.yml files under the recipe directory
    config_file,        \* the file at config_path
    snapshot,           \* the recipe files as they were at the last save_config
    regen_call,         \* the last call of should_regenerate_config
    changes             \* how many times the files were changed from outside

vars == << pc, argHpcSystem, osEnv, hpc_system, gadi_user, gadi_key,
           gadi_key_passphrase, scripts_dir, key_file_path, temp_key_file,
           agent_output, files, agents, killed, calls, setupResult, ssh_cmd, ssh_ret,
           ssh_ev, remote, result, submits, recipe_dir, custom_recipe_dir, now,
           generated, run_in, run_ret, sink, nb_result, matrix,
           continue_on_error, max_parallel, results, cursor, recipes,
           config_file, snapshot, regen_call, changes >>

batchVars == << matrix, continue_on_error, max_parallel, results, cursor >>

cacheVars == << recipes, config_file, snapshot, regen_call, changes >>

dirVars == << recipe_dir, custom_recipe_dir >>

runVars == << now, generated, run_in, run_ret, sink, nb_result >>

---------------------------------------------------------------------------
(* Values *)

None == << >>

Truthy(v) == v # None

KeyContent == << "-----BEGIN", " OPENSSH PRIVATE KEY-----", "b3BlbnNz" >>
KeyPath == << "/home/ci/.ssh/id_gadi" >>
KeyPathMissing == << "/home/ci/.ssh/absent" >>
UserName == << "test_user" >>
Passphrase == << "test_passphrase" >>
ScriptsDir == << "/tmp/test_scripts" >>

TmpKey == << "/tmp/tmpkey", ".pem" >>
AskpassScript == << "/tmp/tmpask", ".sh" >>

ThisAgentSock == << "/tmp/ssh-agent.123" >>
ThisAgentPid == << "12345" >>
InheritedSock == << "/run/user/agent.sock" >>
InheritedPid == << "777" >>

PidTokens == { "12345", "777" }

\* The announcement of `ssh-agent -s`, line by line.
SockLine == << "SSH_AUTH_SOCK=", "/tmp/ssh-agent.123", "; export SSH_AUTH_SOCK;" >>
PidLine == << "SSH_AGENT_PID=", "12345", "; export SSH_AGENT_PID;" >>
EchoLine == << "echo Agent pid ", "12345", ";" >>

AgentOutputs ==
    { << SockLine, PidLine, EchoLine, << >> >>,  \* the announcement of OpenSSH
      << SockLine, << >> >>,                     \* no process id announced
      << PidLine, EchoLine, << >> >>,            \* no socket announced
      << << >> >> }                              \* nothing announced

---------------------------------------------------------------------------
(* os.environ *)

EnvHas(env, k) == k \in DOMAIN env

EnvGet(env, k) == IF k \in DOMAIN env THEN env[k] ELSE None

EnvSet(env, k, v) ==
    [x \in DOMAIN env \cup {k} |-> IF x = k THEN v ELSE env[x]]

---------------------------------------------------------------------------
(* String helpers, computed on tokens *)

\* s.startswith(prefix)
StartsWith(s, prefix) == Len(s) >= 1 /\ s[1] = prefix

\* needle in line
Contains(line, needle) == \E i \in 1..Len(line) : line[i] = needle

\* line.replace(a, '').replace(b, '')
Remove2(line, a, b) == SelectSeq(line, LAMBDA t : t \notin {a, b})

\* int(v) succeeds
IsInt(v) == Len(v) = 1 /\ v[1] \in PidTokens

---------------------------------------------------------------------------
(* _setup_ssh_agent: parsing the agent's announcement *)

\* One line of the announcement, applied to the environment.
ParseAgentLine(env, line) ==
    IF Contains(line, "SSH_AUTH_SOCK=")
    THEN EnvSet(env, "SSH_AUTH_SOCK",
                Remove2(line, "SSH_AUTH_SOCK=", "; export SSH_AUTH_SOCK;"))
    ELSE IF Contains(line, "SSH_AGENT_PID=")
    THEN EnvSet(env, "SSH_AGENT_PID",
                Remove2(line, "SSH_AGENT_PID=", "; export SSH_AGENT_PID;"))
    ELSE env

RECURSIVE ParseAgentOutput(_, _)
ParseAgentOutput(env, lines) ==
    IF lines = << >> THEN env
    ELSE ParseAgentOutput(ParseAgentLine(env, Head(lines)), Tail(lines))

---------------------------------------------------------------------------
(* The external commands of the bootstrap and what they can answer *)

Call(cmd, arg, ev) == [cmd |-> cmd, arg |-> arg, ev |-> ev]

UnlockCmds == << "ssh-add (askpass)", "sshpass ssh-add", "expect ssh-add", "pexpect ssh-add" >>

ProbeCmds == << "", "which sshpass", "which expect", "import pexpect" >>

Strategy(cmd) == CHOOSE k \in 1..Len(UnlockCmds) : UnlockCmds[k] = cmd

IsUnlock(c) == \E k \in 1..Len(UnlockCmds) : UnlockCmds[k] = c.cmd

IsProbe(c) == \E k \in 2..Len(ProbeCmds) : ProbeCmds[k] = c.cmd

\* ssh-add adds an identity only to an agent it can reach through SSH_AUTH_SOCK.
AgentReachable(env) == EnvHas(env, "SSH_AUTH_SOCK")

\* What running ssh-add under a strategy can end in.  "added": the identity was
\* added; "refused": ssh-add ended without adding it; "timeout": the strategy's
\* own timeout elapsed; "error": the command could not be run.
UnlockEvents(env) ==
    (IF AgentReachable(env) THEN {"added"} ELSE {}) \cup {"refused", "timeout", "error"}

ProbeEvents == {"found", "absent"}

\* The tool of strategy k is there: `which` exits 0 (check=True does not raise),
\* `import pexpect` does not raise ImportError.
ToolPresent_always(probe) == TRUE

ToolPresent(probe) == probe = "found"

\* Running the unlock command of strategy k raises a Python exception:
\* subprocess.run(timeout=30) for askpass and sshpass; the bash/expect pair,
\* whose own 30 s timeout ends it before subprocess.run's 60 s, only when it
\* cannot be run; pexpect's expect() on a timeout or a spawn that cannot run.
Raises(k, ev) ==
    IF k = 3 THEN ev = "error" ELSE ev \in {"timeout", "error"}

\* The exit status the code reads when the command did not raise.  The expect
\* script exits 0 on "Identity added*" and on eof, 1 on its timeout.
ReturnCode(k, ev) ==
    IF k = 3
    THEN (IF ev \in {"added", "refused"} THEN 0 ELSE 1)
    ELSE (IF ev = "added" THEN 0 ELSE 1)

\* What one strategy amounts to for the cascade.
Outcome(k, ev) ==
    IF Raises(k, ev) THEN "exception"
    ELSE IF ReturnCode(k, ev) = 0 THEN "success"
    ELSE "failure"

\* What the cascade does after strategy k ended in `outcome` ("skipped": its
\* tool is absent): return True at once, go on to the next strategy, or fall
\* out of the last one to `return False`.
CascadeStep_no_stop(k, outcome) ==
    IF k < Len(UnlockCmds) THEN "next"
    ELSE IF outcome = "success" THEN "return_true" ELSE "return_false"

CascadeStep_abort_on_exception(k, outcome) ==
    IF outcome = "success" THEN "return_true"
    ELSE IF outcome = "exception" THEN "return_false"
    ELSE IF k < Len(UnlockCmds) THEN "next"
    ELSE "return_false"

CascadeStep(k, outcome) ==
    IF outcome = "success" THEN "return_true"
    ELSE IF k < Len(UnlockCmds) THEN "next"
    ELSE "return_false"

PcOf == << "askpass", "sshpass", "expect", "pexpect" >>

---------------------------------------------------------------------------
(* __init__ and the ways _setup_ssh_agent returns to it *)

\* all([self.gadi_user, self.gadi_key, self.scripts_dir])
HpcVarsSet(user, key, sdir) == Truthy(user) /\ Truthy(key) /\ Truthy(sdir)

\* elif self.gadi_key_passphrase:
NeedsBootstrap_always(passphrase) == TRUE

NeedsBootstrap(passphrase) == Truthy(passphrase)

\* if not self._setup_ssh_agent(): self.hpc_system = 'local'
ModeAfterSetup_keep(mode, ok) == mode

ModeAfterSetup(mode, ok) == IF ok THEN mode ELSE "local"

\* finally: remove the temporary key file if one was created and still exists
Finally_unlinks_key_file(fs) ==
    IF key_file_path # None /\ key_file_path \in fs
    THEN fs \ {key_file_path}
    ELSE fs

Finally(fs) ==
    IF temp_key_file # None /\ temp_key_file \in fs
    THEN fs \ {temp_key_file}
    ELSE fs

\* _setup_ssh_agent returns `ok` and __init__ goes on from its call.
Returns(ok, fs) ==
    /\ files' = fs
    /\ setupResult' = (IF ok THEN "true" ELSE "false")
    /\ hpc_system' = ModeAfterSetup(hpc_system, ok)
    /\ pc' = "ready"

\* The cascade goes on after strategy k, the files on disk being fs.
Cascade(k, outcome, fs) ==
    LET step == CascadeStep(k, outcome) IN
    IF step = "return_true" THEN Returns(TRUE, Finally(fs))
    ELSE IF step = "return_false" THEN Returns(FALSE, Finally(fs))
    ELSE /\ pc' = PcOf[k + 1]
         /\ files' = fs
         /\ UNCHANGED << setupResult, hpc_system >>

---------------------------------------------------------------------------
(* Initial states: the process environment and the constructor argument *)

EnvNames == { "GADI_USER", "GADI_KEY", "GADI_KEY_PASSPHRASE", "SCRIPTS_DIR",
              "SSH_AUTH_SOCK", "SSH_AGENT_PID" }

\* The environment that sets each name to its value, leaving out the unset ones.
MakeEnv(user, key, passphrase, sdir, sock, pid) ==
    LET all == [n \in EnvNames |->
                  CASE n = "GADI_USER" -> user
                    [] n = "GADI_KEY" -> key
                    [] n = "GADI_KEY_PASSPHRASE" -> passphrase
                    [] n = "SCRIPTS_DIR" -> sdir
                    [] n = "SSH_AUTH_SOCK" -> sock
                    [] n = "SSH_AGENT_PID" -> pid]
        set == { n \in EnvNames : all[n] # None }
    IN [n \in set |-> all[n]]

\* No runner has been constructed: no field is set, no call made, no output.
NoRunner ==
    /\ hpc_system = "unset"
    /\ gadi_user = None
    /\ gadi_key = None
    /\ gadi_key_passphrase = None
    /\ scripts_dir = None
    /\ key_file_path = None
    /\ temp_key_file = None
    /\ agent_output = None
    /\ agents = {}
    /\ killed = {}
    /\ calls = << >>
    /\ setupResult = "none"
    /\ ssh_cmd = << >>
    /\ ssh_ret = << >>
    /\ ssh_ev = << >>
    /\ remote = << >>
    /\ result = << >>
    /\ submits = 0
    /\ custom_recipe_dir = None
    /\ now = 0
    /\ generated = << >>
    /\ run_in = << >>
    /\ run_ret = << >>
    /\ sink = << >>
    /\ nb_result = << >>

\* No notebook test has been asked for.
NoBatch ==
    /\ matrix = << >>
    /\ continue_on_error = TRUE
    /\ max_parallel = 1
    /\ results = << >>
    /\ cursor = << >>

\* No configuration manager is at work.
NoCache ==
    /\ recipes = << >>
    /\ config_file = << >>
    /\ snapshot = << >>
    /\ regen_call = << >>
    /\ changes = 0

\* Nothing has run yet.
Unconstructed == pc = "new" /\ NoRunner /\ NoBatch /\ NoCache

Init ==
    /\ Unconstructed
    /\ argHpcSystem \in {"gadi", "local"}
    /\ \E user \in {None, UserName},
          key \in {None, KeyContent, KeyPath, KeyPathMissing},
          passphrase \in {None, Passphrase},
          sdir \in {None, ScriptsDir},
          inherited \in BOOLEAN :
            osEnv = MakeEnv(user, key, passphrase, sdir,
                            IF inherited THEN InheritedSock ELSE None,
                            IF inherited THEN InheritedPid ELSE None)
    /\ files = {KeyPath}
    /\ recipe_dir = None

---------------------------------------------------------------------------
(* SmartRecipeRunner.__init__ up to the call of _setup_ssh_agent *)

Construct ==
    /\ pc = "new"
    /\ IF argHpcSystem = "gadi"
       THEN LET user == EnvGet(osEnv, "GADI_USER")
                key == EnvGet(osEnv, "GADI_KEY")
                passphrase == EnvGet(osEnv, "GADI_KEY_PASSPHRASE")
                sdir == EnvGet(osEnv, "SCRIPTS_DIR")
            IN /\ gadi_user' = user
               /\ gadi_key' = key
               /\ gadi_key_passphrase' = passphrase
               /\ scripts_dir' = sdir
               /\ IF ~HpcVarsSet(user, key, sdir)
                  THEN hpc_system' = "local" /\ pc' = "ready"
                  ELSE IF NeedsBootstrap(passphrase)
                  THEN hpc_system' = argHpcSystem /\ pc' = "prepare_key"
                  ELSE hpc_system' = argHpcSystem /\ pc' = "ready"
       ELSE /\ gadi_user' = None
            /\ gadi_key' = None
            /\ gadi_key_passphrase' = None
            /\ scripts_dir' = None
            /\ hpc_system' = argHpcSystem
            /\ pc' = "ready"
    /\ custom_recipe_dir' = recipe_dir
    /\ UNCHANGED << argHpcSystem, osEnv, key_file_path, temp_key_file,
                    agent_output, files, agents, killed, calls, setupResult,
                    ssh_cmd, ssh_ret, ssh_ev, remote, result, submits,
                    recipe_dir, runVars, batchVars, cacheVars >>

---------------------------------------------------------------------------
(* _setup_ssh_agent *)

\* Lines 58-73: the key file handed to ssh-add.  For inline content a temporary
\* file is created; the write (flushed when the file is closed) or the chmod
\* can raise once the file exists, and NamedTemporaryFile can raise before it
\* does: both leave through the outer `except Exception`, which returns False.
PrepareKey ==
    /\ pc = "prepare_key"
    /\ IF StartsWith(gadi_key, "-----BEGIN")
       THEN \E ev \in {"written", "write_or_chmod_raises", "create_raises"} :
              IF ev = "written"
              THEN /\ temp_key_file' = TmpKey
                   /\ key_file_path' = TmpKey
                   /\ files' = files \cup {TmpKey}
                   /\ pc' = "start_agent"
                   /\ UNCHANGED << setupResult, hpc_system >>
              ELSE /\ temp_key_file' = None
                   /\ key_file_path' = gadi_key
                   /\ Returns(FALSE, IF ev = "create_raises" THEN files
                                     ELSE files \cup {TmpKey})
       ELSE /\ temp_key_file' = None
            /\ key_file_path' = gadi_key
            /\ files' = files
            /\ pc' = "start_agent"
            /\ UNCHANGED << setupResult, hpc_system >>
    /\ UNCHANGED << argHpcSystem, osEnv, gadi_user, gadi_key, gadi_key_passphrase,
                    scripts_dir, agent_output, agents, killed, calls, ssh_cmd,
                    ssh_ret, ssh_ev, remote, result, submits, dirVars, batchVars, cacheVars, runVars >>

\* Lines 75-92: ssh-agent -s.  It cannot be run (the call raises), exits
\* nonzero, or exits 0 having started an agent and printed an announcement.
StartAgent ==
    /\ pc = "start_agent"
    /\ \/ \E ev \in {"error", "nonzero"} :
            /\ calls' = Append(calls, Call("ssh-agent", None, ev))
            /\ Returns(FALSE, Finally(files))
            /\ UNCHANGED << osEnv, agents, agent_output >>
       \/ \E out \in AgentOutputs :
            /\ calls' = Append(calls, Call("ssh-agent", None, "started"))
            /\ agents' = agents \cup {ThisAgentPid}
            /\ agent_output' = out
            /\ osEnv' = ParseAgentOutput(osEnv, out)
            /\ pc' = PcOf[1]
            /\ UNCHANGED << files, setupResult, hpc_system >>
    /\ UNCHANGED << argHpcSystem, gadi_user, gadi_key, gadi_key_passphrase,
                    scripts_dir, key_file_path, temp_key_file, killed,
                    ssh_cmd, ssh_ret, ssh_ev, remote, result, submits, dirVars, batchVars, cacheVars, runVars >>

\* Lines 94-123, method 1.  The askpass script is written, ssh-add is run with
\* it, and line 114 removes it when subprocess.run has returned.
Askpass ==
    /\ pc = PcOf[1]
    /\ \E ev \in UnlockEvents(osEnv) :
         /\ calls' = Append(calls, Call(UnlockCmds[1], key_file_path, ev))
         /\ Cascade(1, Outcome(1, ev),
                    IF Raises(1, ev) THEN files \cup {AskpassScript} ELSE files)
    /\ UNCHANGED << argHpcSystem, osEnv, gadi_user, gadi_key, gadi_key_passphrase,
                    scripts_dir, key_file_path, temp_key_file, agent_output,
                    agents, killed, ssh_cmd, ssh_ret, ssh_ev, remote, result, submits, dirVars, batchVars, cacheVars, runVars >>

\* A strategy behind a probe: methods 2 (125-142), 3 (144-180) and 4 (182-201).
Probed(k) ==
    /\ \E probe \in ProbeEvents :
         IF ToolPresent(probe)
         THEN \E ev \in UnlockEvents(osEnv) :
                /\ calls' = calls \o << Call(ProbeCmds[k], None, probe),
                                        Call(UnlockCmds[k], key_file_path, ev) >>
                /\ Cascade(k, Outcome(k, ev), files)
         ELSE /\ calls' = Append(calls, Call(ProbeCmds[k], None, probe))
              /\ Cascade(k, "skipped", files)
    /\ UNCHANGED << argHpcSystem, osEnv, gadi_user, gadi_key, gadi_key_passphrase,
                    scripts_dir, key_file_path, temp_key_file, agent_output,
                    agents, killed, ssh_cmd, ssh_ret, ssh_ev, remote, result, submits, dirVars, batchVars, cacheVars, runVars >>

Sshpass ==
    /\ pc = PcOf[2]
    /\ Probed(2)

Expect ==
    /\ pc = PcOf[3]
    /\ Probed(3)

Pexpect ==
    /\ pc = PcOf[4]
    /\ Probed(4)

---------------------------------------------------------------------------
(* execute_ssh_command *)

GadiHost == << "gadi.nci.org.au" >>

SshOptions ==
    << << "-o" >>, << "StrictHostKeyChecking=no" >>,
       << "-o" >>, << "UserKnownHostsFile=/dev/null" >>,
       << "-o" >>, << "PasswordAuthentication=no" >>,
       << "-o" >>, << "PubkeyAuthentication=yes" >> >>

Commands == { << "echo test" >> }

\* if self.gadi_key_passphrase and 'SSH_AUTH_SOCK' in os.environ:
UseAgent(passphrase, env) == Truthy(passphrase) /\ EnvHas(env, "SSH_AUTH_SOCK")

\* The argument list handed to subprocess.run.
SshCommand(command) ==
    LET target == << gadi_user \o << "@" >> \o GadiHost, command >> IN
    IF UseAgent(gadi_key_passphrase, osEnv)
    THEN << << "ssh" >> >> \o SshOptions \o target
    ELSE << << "ssh" >> >> \o SshOptions \o << << "-i" >>, gadi_key >> \o target

\* subprocess.run refuses an argument list that holds None.
Runnable(cmd) == \A i \in 1..Len(cmd) : cmd[i] # None

\* What the transport does with one command.  cause "remote": ssh connected and
\* exits with the remote command's status; "auth": ssh could not connect or
\* authenticate and exits 255 itself; "timeout": subprocess.run raised
\* TimeoutExpired; "exception": it raised anything else.  out is the stdout as
\* a sequence of lines, err the stderr (for "exception": str(e)).
Ev(cause, rc, out, err) == [cause |-> cause, rc |-> rc, out |-> out, err |-> err]

SshDenied == << "Permission denied (publickey)." >>

ConnectionClosed == << "Connection to gadi.nci.org.au closed by remote host." >>

TimeoutEv == Ev("timeout", 0, None, None)

ExceptionEv == Ev("exception", 0, None, << "[Errno 2] No such file or directory: 'ssh'" >>)

AuthEv == Ev("auth", 255, None, SshDenied)

JobIdLine == << "12345", ".gadi-pbs" >>

SubmitEcho == << "Submitting PBS job for recipe_x..." >>

\* What each remote command can come back with.
TransportEvents(kind) ==
    CASE kind = "command" ->
           { Ev("remote", 0, << << "test output" >>, << >> >>, None),
             Ev("remote", 1, None, << "remote: failed" >>),
             Ev("remote", 255, None, SshDenied),
             AuthEv, TimeoutEv, ExceptionEv }
      [] kind = "backup" ->
           { Ev("remote", 0, None, None),
             Ev("remote", 1, None, << "cd: no such directory" >>) }
      [] kind = "upload" ->
           { Ev("remote", 0, None, None),
             Ev("remote", 1, None, << "cannot create launch_recipe_x.pbs" >>),
             TimeoutEv }
      [] kind = "submit" ->
           { Ev("remote", 0, << JobIdLine >>, None),
             Ev("remote", 0, << SubmitEcho, JobIdLine, << "qsub: warning" >>, << >> >>, None),
             Ev("remote", 0, << SubmitEcho, << >> >>, None),
             Ev("remote", 1, << SubmitEcho, << "qsub: Unknown queue" >>, << >> >>, None) }
      [] kind = "status" ->
           { Ev("remote", 0, << << "R" >>, << >> >>, None),
             Ev("remote", 0, << << >> >>, None),
             Ev("remote", 1, None, None),
             Ev("auth", 255, << << "Q" >>, << >> >>, ConnectionClosed),
             TimeoutEv, ExceptionEv }

SshEvents(cmd, kind) ==
    IF Runnable(cmd) THEN TransportEvents(kind) ELSE { ExceptionEv }

\* The triple execute_ssh_command returns.
SshReturn_check_true(ev) ==
    CASE ev.cause = "timeout" -> << -1, None, << "SSH command timed out" >> >>
      [] ev.cause = "exception" -> << -1, None, ev.err >>
      [] OTHER -> IF ev.rc = 0 THEN << ev.rc, ev.out, ev.err >>
                  ELSE << -1, None, << "Command returned non-zero exit status" >> >>

SshReturn(ev) ==
    CASE ev.cause = "timeout" -> << -1, None, << "SSH command timed out" >> >>
      [] ev.cause = "exception" -> << -1, None, ev.err >>
      [] OTHER -> << ev.rc, ev.out, ev.err >>

ExecuteSshCommand ==
    /\ pc = "ready"
    /\ \E command \in Commands :
         LET cmd == SshCommand(command) IN
         /\ ssh_cmd' = cmd
         /\ \E ev \in SshEvents(cmd, "command") :
               /\ ssh_ev' = ev
               /\ ssh_ret' = SshReturn(ev)
    /\ UNCHANGED << pc, argHpcSystem, osEnv, hpc_system, gadi_user, gadi_key,
                    gadi_key_passphrase, scripts_dir, key_file_path,
                    temp_key_file, agent_output, files, agents, killed, calls,
                    setupResult, remote, result, submits, dirVars, batchVars, cacheVars, runVars >>

---------------------------------------------------------------------------
(* submit_job *)

RecipeName == << "recipe_x" >>

LaunchScript(name) == << "launch_" >> \o name \o << ".pbs" >>

\* cd {self.scripts_dir}/../ESMValTool/jobs
JobsDir == << "cd " >> \o scripts_dir \o << "/../ESMValTool/jobs" >>

BackupCmd(name) ==
    JobsDir \o << " && cp " >> \o LaunchScript(name) \o << " " >>
        \o LaunchScript(name) \o << ".backup.$(date)" >>

UploadCmd(name) == JobsDir \o << " && cat > " >> \o LaunchScript(name)

SubmitCmd(name) == JobsDir \o << " && qsub " >> \o LaunchScript(name)

StatusCmd(job_id) == << "qstat -f " >> \o job_id

\* str.strip() on an output held as lines: empty lines at both ends go.
RECURSIVE StripLeft(_)
StripLeft(lines) ==
    IF lines # << >> /\ Head(lines) = << >> THEN StripLeft(Tail(lines)) ELSE lines

RECURSIVE StripRight(_)
StripRight(lines) ==
    IF lines # << >> /\ lines[Len(lines)] = << >>
    THEN StripRight(SubSeq(lines, 1, Len(lines) - 1))
    ELSE lines

Strip(lines) == StripRight(StripLeft(lines))

\* The text of an output on one line, for a message.
RECURSIVE Text(_)
Text(lines) == IF lines = << >> THEN << >> ELSE Head(lines) \o Text(Tail(lines))

\* if ret_code != 0: after the upload
AbortsAfterUpload_never(ret_code) == FALSE

AbortsAfterUpload(ret_code) == ret_code # 0

\* the ret_code that test reads
RetCodeAtUpload_stale(retBackup, retUpload) ==
    IF retBackup[1] # 0 THEN retBackup[1] ELSE retUpload[1]

RetCodeAtUpload(retBackup, retUpload) == retUpload[1]

\* if '.gadi-pbs' in job_output:
JobIdFound_always(job_output) == TRUE

JobIdFound(job_output) ==
    \E i \in 1..Len(job_output) : Contains(job_output[i], ".gadi-pbs")

\* job_output.split('\n')[-1].strip()
ParseJobId_none(job_output) == << >>

ParseJobId(job_output) ==
    IF job_output = << >> THEN << >> ELSE job_output[Len(job_output)]

\* status_out.strip() or 'unknown'
InitialStatus(status_out) ==
    IF Strip(status_out) # << >> THEN Strip(status_out) ELSE << << "unknown" >> >>

Issued(kind, command, ev) ==
    [kind |-> kind, cmd |-> SshCommand(command), ev |-> ev, ret |-> SshReturn(ev)]

\* One run of submit_job, the transport doing evB, evU, evS, evQ with the
\* commands that get issued: the commands issued and the value returned.
SubmitRun(name, evB, evU, evS, evQ) ==
    LET b == Issued("backup", BackupCmd(name), evB)
        u == Issued("upload", UploadCmd(name), evU)
        s == Issued("submit", SubmitCmd(name), evS)
        job_output == Strip(s.ret[2])
        job_id == ParseJobId(job_output)
        q == Issued("status", StatusCmd(job_id), evQ)
    IN  IF AbortsAfterUpload(RetCodeAtUpload(b.ret, u.ret))
        THEN [log |-> << b, u >>,
              ret |-> << "upload_failed", None,
                         << "Failed to upload PBS script: " >> \o u.ret[3] >>]
        ELSE IF s.ret[1] # 0
        THEN [log |-> << b, u, s >>,
              ret |-> << "submission_failed", None,
                         << "Job submission failed: " >> \o s.ret[3] >>]
        ELSE IF JobIdFound(job_output)
        THEN [log |-> << b, u, s, q >>,
              ret |-> << "submitted", job_id, InitialStatus(q.ret[2]) >>]
        ELSE [log |-> << b, u, s >>,
              ret |-> << "submission_failed", None,
                         << "Could not parse job ID from: " >> \o Text(job_output) >>]

\* submit_job returns `run`.
SubmitReturns(run) ==
    LET last == run.log[Len(run.log)] IN
    /\ remote' = run.log
    /\ result' = run.ret
    /\ ssh_cmd' = last.cmd
    /\ ssh_ev' = last.ev
    /\ ssh_ret' = last.ret

\* The transport's answers are drawn as the commands get issued; NotIssued
\* stands for the answer to a command the run never reaches.
NotIssued == TimeoutEv

\* submit_job runs at most this many times in a behaviour.
MaxSubmits == 1

SubmitJob ==
    /\ pc = "ready"
    /\ submits < MaxSubmits
    /\ submits' = submits + 1
    /\ \E evB \in SshEvents(SshCommand(BackupCmd(RecipeName)), "backup"),
          evU \in SshEvents(SshCommand(UploadCmd(RecipeName)), "upload") :
         LET run2 == SubmitRun(RecipeName, evB, evU, NotIssued, NotIssued) IN
         IF Len(run2.log) = 2 THEN SubmitReturns(run2)
         ELSE \E evS \in SshEvents(SshCommand(SubmitCmd(RecipeName)), "submit") :
                LET run3 == SubmitRun(RecipeName, evB, evU, evS, NotIssued) IN
                IF Len(run3.log) = 3 THEN SubmitReturns(run3)
                ELSE \E evQ \in SshEvents(SshCommand(StatusCmd(JobIdLine)), "status") :
                       SubmitReturns(SubmitRun(RecipeName, evB, evU, evS, evQ))
    /\ UNCHANGED << pc, argHpcSystem, osEnv, hpc_system, gadi_user, gadi_key,
                    gadi_key_passphrase, scripts_dir, key_file_path,
                    temp_key_file, agent_output, files, agents, killed, calls,
                    setupResult, dirVars, batchVars, cacheVars, runVars >>

---------------------------------------------------------------------------
(* cleanup_ssh_agent *)

\* cleanup_ssh_agent: the processes sent a kill once it has run.
KilledAfterCleanup ==
    IF EnvHas(osEnv, "SSH_AGENT_PID") /\ IsInt(osEnv["SSH_AGENT_PID"])
    THEN killed \cup {osEnv["SSH_AGENT_PID"]}
    ELSE killed

CleanupSshAgent_leaves_remote_mode ==
    /\ pc = "ready"
    /\ killed' = KilledAfterCleanup
    /\ hpc_system' = "local"
    /\ UNCHANGED << pc, argHpcSystem, osEnv, gadi_user, gadi_key,
                    gadi_key_passphrase, scripts_dir, key_file_path,
                    temp_key_file, agent_output, files, agents, calls,
                    setupResult, ssh_cmd, ssh_ret, ssh_ev, remote, result, submits, dirVars, batchVars, cacheVars, runVars >>

CleanupSshAgent ==
    /\ pc = "ready"
    /\ killed' = KilledAfterCleanup
    /\ UNCHANGED << pc, argHpcSystem, osEnv, hpc_system, gadi_user, gadi_key,
                    gadi_key_passphrase, scripts_dir, key_file_path,
                    temp_key_file, agent_output, files, agents, calls,
                    setupResult, ssh_cmd, ssh_ret, ssh_ev, remote, result, submits, dirVars, batchVars, cacheVars, runVars >>

---------------------------------------------------------------------------

Next ==
    \/ Construct
    \/ PrepareKey
    \/ StartAgent
    \/ Askpass
    \/ Sshpass
    \/ Expect
    \/ Pexpect
    \/ ExecuteSshCommand
    \/ CleanupSshAgent

Spec == Init /\ [][Next]_vars

---------------------------------------------------------------------------
(* determine_esmvaltool_path and generate_pbs_script *)

RecipeDir == << "/work/ESMValTool", "/esmvaltool", "/recipes" >>

\* Path.parent
Parent(path) == SubSeq(path, 1, Len(path) - 1)

RecipesPath == << "esmvaltool/recipes" >>

Installation(release) == << "../ESMValTool-" >> \o release

\* version_mapping: the versions it has an entry for, and the entry.
MappedVersions ==
    { << "main" >>, << "latest" >>, << "v2.13", ".0" >>, << "v2.12", ".0" >>,
      << "v2.11", ".0" >> }

VersionMapping(version) ==
    CASE version = << "main" >> -> Installation(<< "main" >>)
      [] version = << "latest" >> -> Installation(<< "main" >>)
      [] version = << "v2.13", ".0" >> -> Installation(<< "2.13" >>)
      [] version = << "v2.12", ".0" >> -> Installation(<< "2.12" >>)
      [] version = << "v2.11", ".0" >> -> Installation(<< "2.11" >>)

\* determine_esmvaltool_path(version)[0]; [1] is RecipesPath on every branch.
DetermineEsmvaltoolPath(version) ==
    IF custom_recipe_dir # None /\ custom_recipe_dir \in files
    THEN Parent(Parent(custom_recipe_dir))
    ELSE IF version \in MappedVersions THEN VersionMapping(version)
    ELSE IF StartsWith(version, "v2.13") THEN Installation(<< "2.13" >>)
    ELSE IF StartsWith(version, "v2.12") THEN Installation(<< "2.12" >>)
    ELSE IF StartsWith(version, "v2.11") THEN Installation(<< "2.11" >>)
    ELSE Installation(version)

\* A resource profile (the parsed --config): a function from the keys it has.
Profile(queue, memory, walltime, group) ==
    [k \in {"queue", "memory", "walltime", "group"} |->
        CASE k = "queue" -> queue
          [] k = "memory" -> memory
          [] k = "walltime" -> walltime
          [] k = "group" -> group]

Without(config, key) == [k \in DOMAIN config \ {key} |-> config[k]]

MockConfig == Profile(<< "normal" >>, << "8gb" >>, << "03:00:00" >>, << "medium" >>)

\* The keys generate_pbs_script subscripts: a missing one is a KeyError.
RequiredKeys == { "queue", "walltime", "memory", "group" }

\* config.get('max_parallel_tasks') and the parameter built from it
ParallelTasksParam(config) ==
    IF "max_parallel_tasks" \in DOMAIN config /\ Truthy(config["max_parallel_tasks"])
    THEN << " --max_parallel_tasks=" >> \o config["max_parallel_tasks"]
    ELSE << >>

\* The line of the script that reports the start of the job: the date is left
\* to the shell that runs the script; t is the time generate_pbs_script runs.
JobStartedLine_clock(t) == << "echo \"Job started at: ", t, "\"" >>

JobStartedLine(t) == << "echo \"Job started at: $(date)\"" >>

\* The text generate_pbs_script returns at time t, as the pieces the f-string
\* puts together.
PbsScript(recipe_name, config, version, conda_module, t) ==
    LET esmval_path == DetermineEsmvaltoolPath(version)
        recipe_file == esmval_path \o << "/" >> \o RecipesPath \o << "/" >>
                           \o recipe_name \o << ".yml" >>
    IN  << "#!/bin/bash -l", "#PBS -N " >> \o recipe_name \o << "-" >> \o version
        \o << "#PBS -W block=true", "#PBS -q " >> \o config["queue"]
        \o << "#PBS -l walltime=" >> \o config["walltime"]
        \o << "#PBS -l mem=" >> \o config["memory"]
        \o << "module load " >> \o conda_module
        \o << "export ESMVAL_USER_CONFIG=config-user-" >> \o version \o << ".yml" >>
        \o << "echo \"Resource group: " >> \o config["group"] \o << "\"" >>
        \o JobStartedLine(t)
        \o << "recipe_file=" >> \o recipe_file
        \o << "esmvaltool run" >> \o ParallelTasksParam(config)

\* generate_pbs_script: the script, or the KeyError of a missing key.
GeneratePbsScript(recipe_name, config, version, conda_module, t) ==
    IF RequiredKeys \subseteq DOMAIN config
    THEN [raised |-> FALSE,
          text |-> PbsScript(recipe_name, config, version, conda_module, t)]
    ELSE [raised |-> TRUE, text |-> << "KeyError" >>]

ScriptConfigs ==
    { MockConfig,
      [k \in DOMAIN MockConfig \cup {"max_parallel_tasks"} |->
          IF k = "max_parallel_tasks" THEN << "4" >> ELSE MockConfig[k]],
      Without(MockConfig, "queue") }

ScriptVersions == { << "main" >>, << "v2.13", ".1" >>, << "feature-x" >>, << >> }

CondaModule == << "conda/access-med" >>

\* generate_pbs_script is called at most this many times in a behaviour, and
\* the clock goes no further than MaxTime.
MaxCalls == 2

MaxTime == 2

CallGeneratePbsScript ==
    /\ pc = "ready"
    /\ Len(generated) < MaxCalls
    /\ \E config \in ScriptConfigs, version \in ScriptVersions :
         generated' = Append(generated,
            [recipe_name |-> RecipeName, config |-> config, version |-> version,
             conda_module |-> CondaModule, at |-> now,
             out |-> GeneratePbsScript(RecipeName, config, version, CondaModule, now)])
    /\ UNCHANGED << pc, argHpcSystem, osEnv, hpc_system, gadi_user, gadi_key,
                    gadi_key_passphrase, scripts_dir, key_file_path,
                    temp_key_file, agent_output, files, agents, killed, calls,
                    setupResult, ssh_cmd, ssh_ret, ssh_ev, remote, result,
                    submits, dirVars, batchVars, cacheVars, now, run_in, run_ret, sink, nb_result >>

\* Time passes.
Tick ==
    /\ pc = "ready"
    /\ now < MaxTime
    /\ now' = now + 1
    /\ UNCHANGED << pc, argHpcSystem, osEnv, hpc_system, gadi_user, gadi_key,
                    gadi_key_passphrase, scripts_dir, key_file_path,
                    temp_key_file, agent_output, files, agents, killed, calls,
                    setupResult, ssh_cmd, ssh_ret, ssh_ev, remote, result,
                    submits, dirVars, batchVars, cacheVars, generated, run_in, run_ret, sink, nb_result >>

\* Script generation on a runner built for local use, with or without a custom
\* recipe directory, which may or may not exist.
InitScript ==
    /\ Unconstructed
    /\ argHpcSystem = "local"
    /\ osEnv = MakeEnv(None, None, None, None, None, None)
    /\ recipe_dir \in {None, RecipeDir}
    /\ files \in { {KeyPath}, {KeyPath, RecipeDir} }

NextScript ==
    \/ Construct
    \/ CallGeneratePbsScript
    \/ Tick

SpecScript == InitScript /\ [][NextScript]_vars

\* Job submission, on a runner asked for the HPC system in an environment that
\* names the HPC user and the scripts directory and has no agent of its own.
InitJob ==
    /\ Init
    /\ argHpcSystem = "gadi"
    /\ EnvHas(osEnv, "GADI_USER")
    /\ EnvHas(osEnv, "SCRIPTS_DIR")
    /\ ~EnvHas(osEnv, "SSH_AUTH_SOCK")

NextJob ==
    \/ Construct
    \/ PrepareKey
    \/ StartAgent
    \/ Askpass
    \/ Sshpass
    \/ Expect
    \/ Pexpect
    \/ SubmitJob

SpecJob == InitJob /\ [][NextJob]_vars

---------------------------------------------------------------------------
(* find_recipe_file, run_local, run, run_hpc and main *)

\* find_recipe_file, lines 450-464: the file in the custom recipe directory,
\* or None.
RecipeFile(name) == custom_recipe_dir \o << "/" >> \o name \o << ".yml" >>

FindRecipeFile(name) ==
    IF Truthy(custom_recipe_dir) /\ RecipeFile(name) \in files
    THEN RecipeFile(name)
    ELSE None

\* Lines 478 and 514: mode == 'dry-run'.
IsDryRun_never(mode) == FALSE

IsDryRun(mode) == mode = "dry-run"

\* run_local: the pair returned.
RunLocal(name, mode) ==
    IF ~Truthy(FindRecipeFile(name)) THEN << "error", None >>
    ELSE IF IsDryRun(mode) THEN << "success", None >>
    ELSE << "skipped", None >>

\* The --config argument: text json.loads parses to a profile, or text it
\* rejects.
ConfigJson(config) == [parses |-> TRUE, config |-> config]

NotJson == [parses |-> FALSE, config |-> [k \in {} |-> None]]

EmptyQueue == Profile(None, << "8gb" >>, << "03:00:00" >>, << "medium" >>)

ConfigJsons ==
    { ConfigJson(MockConfig), ConfigJson(EmptyQueue),
      ConfigJson(Without(MockConfig, "queue")), NotJson }

Modes == { "dry-run", "run-only" }

Version == << "main" >>

\* Lines 548-552 and 557-559: what run_hpc appends to the file GITHUB_OUTPUT
\* names.
SubmittedLines(job_id, initial_status) ==
    << << "status=", "submitted" >>,
       << "job_id=" >> \o job_id,
       << "initial_status=" >> \o Text(initial_status),
       << "job_submitted=", "true" >> >>

FailedLines(status) ==
    << << "status=", status >>, << "job_submitted=", "false" >> >>

\* Lines 543-560: the lines written and the pair returned for what
\* submit_job returned.
HpcLines(ret) ==
    IF ret[1] = "submitted" THEN SubmittedLines(ret[2], ret[3])
    ELSE FailedLines(ret[1])

HpcReturn(ret) ==
    IF ret[1] = "submitted" THEN << ret[1], ret[2] >> ELSE << ret[1], None >>

\* Lines 516 and 530-535: json.loads raises on text that is no JSON, and the
\* prints of the run branch raise KeyError on a profile without the key.
LoadRaises(mode, config_json) ==
    \/ ~config_json.parses
    \/ ~IsDryRun(mode) /\ ~(RequiredKeys \subseteq DOMAIN config_json.config)

NoRun == [log |-> << >>, ret |-> << >>]

\* main, lines 573-597, once the runner is constructed: run() with the
\* arguments of the command line, the `except Exception` that reports the
\* error and exits 1, and the `finally` that cleans the agent up.
MainRun ==
    /\ pc = "ready"
    /\ \E mode \in Modes, config_json \in ConfigJsons :
         LET script == [recipe_name |-> RecipeName, config |-> config_json.config,
                        version |-> Version, conda_module |-> CondaModule,
                        at |-> now,
                        out |-> GeneratePbsScript(RecipeName, config_json.config,
                                                  Version, CondaModule, now)]
             Ends(raised, ret, scripts, lines, run) ==
                /\ run_in' = [recipe_name |-> RecipeName, config_json |-> config_json,
                              esmvaltool_version |-> Version,
                              conda_module |-> CondaModule, mode |-> mode]
                /\ run_ret' = [raised |-> raised, status |-> ret[1],
                               job_id |-> ret[2],
                               exit |-> IF raised THEN 1 ELSE 0]
                /\ generated' = generated \o scripts
                /\ sink' = sink \o lines
                             \o (IF raised THEN FailedLines("error") ELSE << >>)
                /\ IF Len(run.log) > 0
                   THEN SubmitReturns(run) /\ submits' = submits + 1
                   ELSE UNCHANGED << remote, result, ssh_cmd, ssh_ev, ssh_ret,
                                     submits >>
             Excepts(scripts) == Ends(TRUE, << "", None >>, scripts, << >>, NoRun)
             Submitted(run) ==
                Ends(FALSE, HpcReturn(run.ret), << script >>, HpcLines(run.ret), run)
         IN  IF hpc_system = "local"
             THEN Ends(FALSE, RunLocal(RecipeName, mode), << >>, << >>, NoRun)
             ELSE IF LoadRaises(mode, config_json) THEN Excepts(<< >>)
             ELSE IF script.out.raised THEN Excepts(<< script >>)
             ELSE IF IsDryRun(mode)
             THEN Ends(FALSE, << "dry-run", None >>, << script >>, << >>, NoRun)
             ELSE \E evB \in SshEvents(SshCommand(BackupCmd(RecipeName)), "backup"),
                     evU \in SshEvents(SshCommand(UploadCmd(RecipeName)), "upload") :
                    LET run2 == SubmitRun(RecipeName, evB, evU, NotIssued, NotIssued) IN
                    IF Len(run2.log) = 2 THEN Submitted(run2)
                    ELSE \E evS \in SshEvents(SshCommand(SubmitCmd(RecipeName)), "submit") :
                           LET run3 == SubmitRun(RecipeName, evB, evU, evS, NotIssued) IN
                           IF Len(run3.log) = 3 THEN Submitted(run3)
                           ELSE \E evQ \in SshEvents(SshCommand(StatusCmd(JobIdLine)), "status") :
                                  Submitted(SubmitRun(RecipeName, evB, evU, evS, evQ))
    /\ killed' = KilledAfterCleanup
    /\ pc' = "exited"
    /\ UNCHANGED << argHpcSystem, osEnv, hpc_system, gadi_user, gadi_key,
                    gadi_key_passphrase, scripts_dir, key_file_path,
                    temp_key_file, agent_output, files, agents, calls,
                    setupResult, dirVars, batchVars, cacheVars, now, nb_result >>

\* main() constructs SmartRecipeRunner() with its defaults: the HPC system is
\* asked for and there is no custom recipe directory.  The environment names
\* the scripts directory and has no agent of its own.
InitMain ==
    /\ Init
    /\ argHpcSystem = "gadi"
    /\ EnvHas(osEnv, "SCRIPTS_DIR")
    /\ ~EnvHas(osEnv, "SSH_AUTH_SOCK")

NextMain ==
    \/ Construct
    \/ PrepareKey
    \/ StartAgent
    \/ Askpass
    \/ Sshpass
    \/ Expect
    \/ Pexpect
    \/ MainRun

SpecMain == InitMain /\ [][NextMain]_vars

---------------------------------------------------------------------------
(* NotebookRunner._execute_notebook (notebook-runner.py) *)

\* f"notebook_{notebook_name}"
NotebookJob == << "notebook_", "nb" >>

\* _load_config, lines 74-79: seconds allowed by complexity.
Timeouts == [light |-> 1800, medium |-> 3600]

\* f"{timeout + 300}" for the timeouts above.
Seconds(n) == CASE n = 2100 -> "2100" [] n = 3900 -> "3900"

\* What the scheduler would answer to the status queries of a monitor, one
\* answer per query, the last one repeated for ever: a job that stays running,
\* a job that completes at the fourth query, and a job that completes while
\* the first query fails in the transport.
PollScripts ==
    { << "running" >>,
      << "queued", "running", "running", "completed" >>,
      << "transport error", "completed" >> }

NoPolls == << >>

\* Line 304, self.monitor_job(job_id, timeout + 300): neither NotebookRunner
\* nor SmartRecipeRunner defines monitor_job, so the attribute lookup raises
\* AttributeError before any status query is issued, whatever the scheduler
\* would answer.
MonitorJob(job_id, timeout, polls) ==
    [raised |-> TRUE, status |-> "", queries |-> 0,
     error |-> << "'NotebookRunner' object has no attribute 'monitor_job'" >>]

\* Line 279: status in ["upload_failed", "submission_failed"].
SubmissionFailed_never(status) == FALSE

SubmissionFailed(status) == status \in {"upload_failed", "submission_failed"}

\* Line 304 is reached: the job was submitted, or submit_job returned a status
\* that lines 279 and 288 do not return on.
MonitorCalled(status) ==
    ~SubmissionFailed(status) /\ status # "local_execution"

\* Lines 279-346: the NotebookTestResult for what submit_job returned and what
\* the monitor did.
NotebookResult(ret, monitor, timeout) ==
    IF SubmissionFailed(ret[1])
    THEN [success |-> FALSE,
          error_message |-> << "Job submission failed: " >> \o ret[3]]
    ELSE IF ret[1] = "local_execution"
    THEN [success |-> FALSE,
          error_message |-> << "Execution error: ",
                               "unexpected keyword argument 'output'" >>]
    ELSE IF monitor.raised
    THEN [success |-> FALSE,
          error_message |-> << "Execution error: " >> \o monitor.error]
    ELSE IF monitor.status = "completed"
    THEN [success |-> TRUE, error_message |-> None]
    ELSE IF monitor.status = "timeout"
    THEN [success |-> FALSE,
          error_message |-> << "Job timeout after ", Seconds(timeout + 300), "s" >>]
    ELSE IF monitor.status = "failed"
    THEN [success |-> FALSE, error_message |-> << "Job failed: ", "Unknown error" >>]
    ELSE [success |-> FALSE, error_message |-> << "Job status: ", monitor.status >>]

\* _execute_notebook for one notebook of the matrix, in test mode.
ExecuteNotebook ==
    /\ pc = "ready"
    /\ \E complexity \in DOMAIN Timeouts :
         LET timeout == Timeouts[complexity]
             Returns2(run, polls) ==
                LET monitor == MonitorJob(run.ret[2], timeout + 300, polls) IN
                /\ SubmitReturns(run)
                /\ nb_result' = [complexity |-> complexity, polls |-> polls,
                                 status |-> run.ret[1],
                                 monitored |-> MonitorCalled(run.ret[1]),
                                 final_status |-> monitor.status,
                                 queries |-> IF polls = NoPolls THEN 0
                                             ELSE monitor.queries,
                                 result |-> NotebookResult(run.ret, monitor, timeout)]
         IN  \E evB \in SshEvents(SshCommand(BackupCmd(NotebookJob)), "backup"),
                evU \in SshEvents(SshCommand(UploadCmd(NotebookJob)), "upload") :
               LET run2 == SubmitRun(NotebookJob, evB, evU, NotIssued, NotIssued) IN
               IF Len(run2.log) = 2 THEN Returns2(run2, NoPolls)
               ELSE \E evS \in SshEvents(SshCommand(SubmitCmd(NotebookJob)), "submit") :
                      LET run3 == SubmitRun(NotebookJob, evB, evU, evS, NotIssued) IN
                      IF Len(run3.log) = 3 THEN Returns2(run3, NoPolls)
                      ELSE \E evQ \in SshEvents(SshCommand(StatusCmd(JobIdLine)), "status"),
                              polls \in PollScripts :
                             Returns2(SubmitRun(NotebookJob, evB, evU, evS, evQ), polls)
    /\ submits' = submits + 1
    /\ pc' = "tested"
    /\ UNCHANGED << argHpcSystem, osEnv, hpc_system, gadi_user, gadi_key,
                    gadi_key_passphrase, scripts_dir, key_file_path,
                    temp_key_file, agent_output, files, agents, killed, calls,
                    setupResult, dirVars, batchVars, cacheVars, now, generated, run_in, run_ret, sink >>

\* NotebookRunner() constructs its SmartRecipeRunner with the default
\* hpc_system; the environment names the scripts directory and has no agent
\* of its own.
InitNotebook ==
    /\ Init
    /\ argHpcSystem = "gadi"
    /\ EnvHas(osEnv, "SCRIPTS_DIR")
    /\ ~EnvHas(osEnv, "SSH_AUTH_SOCK")

NextNotebook ==
    \/ Construct
    \/ PrepareKey
    \/ StartAgent
    \/ Askpass
    \/ Sshpass
    \/ Expect
    \/ Pexpect
    \/ ExecuteNotebook

SpecNotebook == InitNotebook /\ [][NextNotebook]_vars

---------------------------------------------------------------------------
(* NotebookRunner.run_notebook_tests and _run_notebook_batch *)

\* Line 113: processing_order.
ProcessingOrder == << "light", "medium", "heavy", "extra-heavy" >>

\* The complexity labels of the notebooks of a matrix: two of the processing
\* order and one that is not in it.
Labels == { "light", "medium", "tiny" }

\* What _run_single_notebook does with a notebook: it returns a result with
\* success True or False, or it raises.
Outcomes == { "success", "failure", "raises" }

\* A test matrix has at most MaxNotebooks notebooks, and max_parallel is at
\* most MaxParallel.
MaxNotebooks == 3

MaxParallel == 2

Matrices ==
    UNION { [1..n -> [complexity : Labels, outcome : Outcomes]] :
               n \in 1..MaxNotebooks }

\* Lines 104-110: complexity_groups[complexity], the notebooks (by position in
\* the matrix) in the order of the matrix.
ComplexityGroup(complexity) ==
    LET InGroup(n) == matrix[n].complexity = complexity
    IN  SelectSeq([n \in 1..Len(matrix) |-> n], InGroup)

\* Lines 144-145 and 151-160: the result appended for notebook n, the
\* error_result of the `except Exception` when _run_single_notebook raised.
SingleResult(n) ==
    [notebook |-> n,
     success |-> matrix[n].outcome = "success",
     error_message |-> IF matrix[n].outcome = "raises"
                       THEN "Exception during execution"
                       ELSE IF matrix[n].outcome = "failure" THEN "failed"
                       ELSE ""]

\* _run_notebook_batch: the results of the batch, which ends at the first
\* notebook without success unless continue_on_error.
RECURSIVE BatchResults(_, _)
BatchResults(batch, continue) ==
    IF batch = << >> THEN << >>
    ELSE LET r == SingleResult(Head(batch)) IN
         IF ~r.success /\ ~continue THEN << r >>
         ELSE << r >> \o BatchResults(Tail(batch), continue)

Min(a, b) == IF a < b THEN a ELSE b

\* Lines 123-128: one turn of the loop over the batches of a complexity group.
RunNotebookBatch ==
    /\ pc = "tests"
    /\ cursor.group <= Len(ProcessingOrder)
    /\ LET notebooks == ComplexityGroup(ProcessingOrder[cursor.group])
           batch == SubSeq(notebooks, cursor.i + 1,
                           Min(cursor.i + max_parallel, Len(notebooks)))
       IN /\ cursor.i < Len(notebooks)
          /\ results' = results \o BatchResults(batch, continue_on_error)
          /\ cursor' = [cursor EXCEPT !.i = cursor.i + max_parallel]
    /\ UNCHANGED << pc, argHpcSystem, osEnv, hpc_system, gadi_user, gadi_key,
                    gadi_key_passphrase, scripts_dir, key_file_path,
                    temp_key_file, agent_output, files, agents, killed, calls,
                    setupResult, ssh_cmd, ssh_ret, ssh_ev, remote, result,
                    submits, dirVars, runVars, matrix, continue_on_error,
                    max_parallel, cacheVars >>

\* Lines 115-123: the loop goes on to the next complexity of the processing
\* order, the group of this one being absent or done.
NextComplexity ==
    /\ pc = "tests"
    /\ cursor.group <= Len(ProcessingOrder)
    /\ cursor.i >= Len(ComplexityGroup(ProcessingOrder[cursor.group]))
    /\ cursor' = [group |-> cursor.group + 1, i |-> 0]
    /\ UNCHANGED << pc, argHpcSystem, osEnv, hpc_system, gadi_user, gadi_key,
                    gadi_key_passphrase, scripts_dir, key_file_path,
                    temp_key_file, agent_output, files, agents, killed, calls,
                    setupResult, ssh_cmd, ssh_ret, ssh_ev, remote, result,
                    submits, dirVars, runVars, matrix, continue_on_error,
                    max_parallel, results, cacheVars >>

\* Line 135: return self.results.
ReturnResults ==
    /\ pc = "tests"
    /\ cursor.group > Len(ProcessingOrder)
    /\ pc' = "reported"
    /\ UNCHANGED << argHpcSystem, osEnv, hpc_system, gadi_user, gadi_key,
                    gadi_key_passphrase, scripts_dir, key_file_path,
                    temp_key_file, agent_output, files, agents, killed, calls,
                    setupResult, ssh_cmd, ssh_ret, ssh_ev, remote, result,
                    submits, dirVars, runVars, batchVars, cacheVars >>

\* run_notebook_tests is called on a matrix, results being empty.
InitBatch ==
    /\ pc = "tests"
    /\ NoRunner
    /\ NoCache
    /\ argHpcSystem = "gadi"
    /\ osEnv = MakeEnv(None, None, None, None, None, None)
    /\ files = {KeyPath}
    /\ recipe_dir = None
    /\ matrix \in Matrices
    /\ continue_on_error \in BOOLEAN
    /\ max_parallel \in 1..MaxParallel
    /\ results = << >>
    /\ cursor = [group |-> 1, i |-> 0]

NextBatch ==
    \/ RunNotebookBatch
    \/ NextComplexity
    \/ ReturnResults

SpecBatch == InitBatch /\ [][NextBatch]_vars

---------------------------------------------------------------------------
(* SmartConfigManager (config-manager.py): the configuration and its hash *)

\* The *.yml paths that can exist under recipe_dir, as recipe_files.sort()
\* orders them.
RecipePaths == << "recipes/a.yml", "recipes/b.yml" >>

\* What a recipe file can hold.
Contents == { << "v1" >>, << "v2" >> }

RecipeFiles == [content : Contents, readable : BOOLEAN]

\* The states of the recipe directory: which paths exist, with what in them.
Directories ==
    UNION { [paths -> RecipeFiles] :
              paths \in SUBSET { RecipePaths[i] : i \in 1..Len(RecipePaths) } }

\* Lines 113-117: the bytes of a file that get into the hash, none when the
\* file cannot be opened or read.
Read_nothing(file) == << >>

Read(file) == IF file.readable THEN file.content ELSE << >>

\* Lines 101-119: the bytes the hasher is fed for the directory `dir`: for
\* each path in sorted order the path, then what can be read of the file.
RECURSIVE HashedBytes(_, _)
HashedBytes(dir, n) ==
    IF n > Len(RecipePaths) THEN << >>
    ELSE (IF RecipePaths[n] \in DOMAIN dir
          THEN << RecipePaths[n] >> \o Read(dir[RecipePaths[n]])
          ELSE << >>)
         \o HashedBytes(dir, n + 1)

\* get_config_hash: the MD5 digest, which stands for the bytes it was fed.
GetConfigHash(dir) == << "md5" >> \o HashedBytes(dir, 1)

\* The file at config_path: there or not, readable or not, and the YAML
\* mapping in it.
ConfigFile(exists, readable, content) ==
    [exists |-> exists, readable |-> readable, content |-> content]

NoMapping == [k \in {} |-> << >>]

\* A configuration that was not generated by generate_config (the test's
\* {'version': '1.0'}).
ForeignConfig == [version |-> << "1.0" >>]

\* generate_config, lines 211-220 (the recipes list is left out).
GenerateConfig(dir) == [metadata |-> [recipe_hash |-> GetConfigHash(dir)]]

\* load_existing_config: the mapping, or None when the file is missing or
\* cannot be loaded.
LoadExistingConfig(cf) ==
    IF cf.exists /\ cf.readable THEN cf.content ELSE NoMapping

\* existing_config.get('metadata', {}).get('recipe_hash')
StoredHash(config) ==
    IF "metadata" \in DOMAIN config THEN config.metadata.recipe_hash ELSE None

\* should_regenerate_config
ShouldRegenerateConfig(force, cf, dir) ==
    \/ force
    \/ ~cf.exists
    \/ DOMAIN LoadExistingConfig(cf) = {}
    \/ GetConfigHash(dir) # StoredHash(LoadExistingConfig(cf))

\* save_config writes the mapping to config_path; a file that was there keeps
\* its permissions.
SaveConfig(cf, config) ==
    ConfigFile(TRUE, IF cf.exists THEN cf.readable ELSE TRUE, config)

\* The recipe files and the configuration file are changed from outside at
\* most MaxChanges times in a behaviour.
MaxChanges == 2

\* SmartConfigManager.run, lines 317-330: the configuration is regenerated and
\* saved when should_regenerate_config says so; generate_config or save_config
\* can raise, which leaves the file as it was (status 'error').
ConfigRun ==
    /\ pc = "cache"
    /\ \E force_regen \in BOOLEAN, raises \in BOOLEAN :
         IF ShouldRegenerateConfig(force_regen, config_file, recipes) /\ ~raises
         THEN /\ config_file' = SaveConfig(config_file, GenerateConfig(recipes))
              /\ snapshot' = [saved |-> TRUE, recipes |-> recipes]
         ELSE UNCHANGED << config_file, snapshot >>
    /\ regen_call' = [regen_call EXCEPT !.called = FALSE]
    /\ UNCHANGED << pc, argHpcSystem, osEnv, hpc_system, gadi_user, gadi_key,
                    gadi_key_passphrase, scripts_dir, key_file_path,
                    temp_key_file, agent_output, files, agents, killed, calls,
                    setupResult, ssh_cmd, ssh_ret, ssh_ev, remote, result,
                    submits, dirVars, runVars, batchVars, recipes, changes >>

\* should_regenerate_config(force) is called and returns.
CallShouldRegenerateConfig ==
    /\ pc = "cache"
    /\ \E force \in BOOLEAN :
         regen_call' = [called |-> TRUE, force |-> force,
                        ret |-> ShouldRegenerateConfig(force, config_file, recipes)]
    /\ UNCHANGED << pc, argHpcSystem, osEnv, hpc_system, gadi_user, gadi_key,
                    gadi_key_passphrase, scripts_dir, key_file_path,
                    temp_key_file, agent_output, files, agents, killed, calls,
                    setupResult, ssh_cmd, ssh_ret, ssh_ev, remote, result,
                    submits, dirVars, runVars, batchVars, recipes, config_file,
                    snapshot, changes >>

\* A recipe file is added, removed, rewritten or has its permissions changed.
ChangeRecipes ==
    /\ pc = "cache"
    /\ changes < MaxChanges
    /\ changes' = changes + 1
    /\ \E dir \in Directories :
         /\ dir # recipes
         /\ \E i \in 1..Len(RecipePaths) :
              \A j \in 1..Len(RecipePaths) \ {i} :
                 /\ RecipePaths[j] \in DOMAIN dir <=> RecipePaths[j] \in DOMAIN recipes
                 /\ RecipePaths[j] \in DOMAIN dir
                      => dir[RecipePaths[j]] = recipes[RecipePaths[j]]
         /\ recipes' = dir
    /\ regen_call' = [regen_call EXCEPT !.called = FALSE]
    /\ UNCHANGED << pc, argHpcSystem, osEnv, hpc_system, gadi_user, gadi_key,
                    gadi_key_passphrase, scripts_dir, key_file_path,
                    temp_key_file, agent_output, files, agents, killed, calls,
                    setupResult, ssh_cmd, ssh_ret, ssh_ev, remote, result,
                    submits, dirVars, runVars, batchVars, config_file, snapshot >>

\* The configuration file is deleted or made unreadable.
DamageConfig ==
    /\ pc = "cache"
    /\ changes < MaxChanges
    /\ changes' = changes + 1
    /\ config_file.exists
    /\ \/ config_file' = [config_file EXCEPT !.exists = FALSE]
       \/ config_file.readable /\ config_file' = [config_file EXCEPT !.readable = FALSE]
    /\ regen_call' = [regen_call EXCEPT !.called = FALSE]
    /\ UNCHANGED << pc, argHpcSystem, osEnv, hpc_system, gadi_user, gadi_key,
                    gadi_key_passphrase, scripts_dir, key_file_path,
                    temp_key_file, agent_output, files, agents, killed, calls,
                    setupResult, ssh_cmd, ssh_ret, ssh_ev, remote, result,
                    submits, dirVars, runVars, batchVars, recipes, snapshot >>

\* A configuration manager on a recipe directory, with no configuration file
\* or one it did not write.
InitCache ==
    /\ pc = "cache"
    /\ NoRunner
    /\ NoBatch
    /\ argHpcSystem = "gadi"
    /\ osEnv = MakeEnv(None, None, None, None, None, None)
    /\ files = {KeyPath}
    /\ recipe_dir = None
    /\ recipes \in Directories
    /\ config_file \in { ConfigFile(FALSE, FALSE, NoMapping),
                         ConfigFile(TRUE, TRUE, NoMapping),
                         ConfigFile(TRUE, TRUE, ForeignConfig) }
    /\ snapshot = [saved |-> FALSE, recipes |-> recipes]
    /\ regen_call = [called |-> FALSE, force |-> FALSE, ret |-> FALSE]
    /\ changes = 0

NextCache ==
    \/ ConfigRun
    \/ CallShouldRegenerateConfig
    \/ ChangeRecipes
    \/ DamageConfig

SpecCache == InitCache /\ [][NextCache]_vars

---------------------------------------------------------------------------
(* What the log of the bootstrap says *)

\* The strategy a logged unlock command belongs to ended in success.
Succeeded(c) == IsUnlock(c) /\ Outcome(Strategy(c.cmd), c.ev) = "success"

\* Strategy k's unlock command was invoked among the first n calls.
AttemptedBy(k, n) == \E m \in 1..n : calls[m].cmd = UnlockCmds[k]

\* Strategy k's probe found its tool absent among the first n calls.
AbsentBy(k, n) ==
    \E m \in 1..n : calls[m].cmd = ProbeCmds[k] /\ calls[m].ev = "absent"

NoSuccess == \A i \in 1..Len(calls) : ~Succeeded(calls[i])

AgentStarted ==
    \E i \in 1..Len(calls) : calls[i].cmd = "ssh-agent" /\ calls[i].ev = "started"

AgentStartFailed ==
    \E i \in 1..Len(calls) : calls[i].cmd = "ssh-agent" /\ calls[i].ev # "started"

\* The announcement names both a socket and a process id.
Parsable(out) ==
    /\ \E i \in 1..Len(out) : Contains(out[i], "SSH_AUTH_SOCK=")
    /\ \E i \in 1..Len(out) : Contains(out[i], "SSH_AGENT_PID=")

InlineKey == StartsWith(gadi_key, "-----BEGIN")

HasKeyArg(cmd) == \E i \in 1..Len(cmd) : cmd[i] = << "-i" >>

---------------------------------------------------------------------------
(* Claims *)

\* C1: with a passphrase configured the unlock commands are invoked in the
\* fixed order askpass, sshpass, expect, pexpect; when strategy k is the first
\* to return success, every earlier strategy was attempted or found absent,
\* nothing is invoked after k and the bootstrap has returned success.
C1_FixedOrderFirstSuccess ==
    /\ \A i, j \in 1..Len(calls) :
         (i < j /\ IsUnlock(calls[i]) /\ IsUnlock(calls[j]))
            => Strategy(calls[i].cmd) < Strategy(calls[j].cmd)
    /\ \A i \in 1..Len(calls) :
         Succeeded(calls[i]) =>
            /\ i = Len(calls)
            /\ pc = "ready"
            /\ setupResult = "true"
            /\ \A j \in 1..(Strategy(calls[i].cmd) - 1) :
                 AttemptedBy(j, i - 1) \/ AbsentBy(j, i - 1)
    /\ setupResult = "true" => (calls # << >> /\ Succeeded(calls[Len(calls)]))
    /\ calls # << >> => Truthy(gadi_key_passphrase)

\* C1 witness: the third strategy is the first to succeed, after askpass was
\* attempted and sshpass was found absent.
C1_Witness ==
    /\ setupResult = "true"
    /\ calls[Len(calls)].cmd = UnlockCmds[3]
    /\ AttemptedBy(1, Len(calls) - 1)
    /\ AbsentBy(2, Len(calls) - 1)

\* C2: with a passphrase configured and no strategy succeeding, construction
\* completes with hpc_system = 'local'.
C2_DegradesToLocal ==
    (pc = "ready" /\ Truthy(gadi_key_passphrase) /\ NoSuccess)
       => (hpc_system = "local" /\ setupResult # "true")

\* C2 witness: the agent started, askpass failed, every other tool is absent.
C2_Witness ==
    /\ pc = "ready"
    /\ AgentStarted
    /\ AttemptedBy(1, Len(calls))
    /\ \A k \in 2..4 : AbsentBy(k, Len(calls))
    /\ hpc_system = "local"

\* C3: for inline key content the unlock commands are handed the temporary
\* key file, and no temporary key file exists once _setup_ssh_agent has
\* returned, on any exit path.
C3_TempKeyRemoved ==
    /\ \A i \in 1..Len(calls) :
         (IsUnlock(calls[i]) /\ InlineKey) => calls[i].arg = TmpKey
    /\ pc = "ready" => TmpKey \notin files

\* C4: the askpass helper script does not exist once _setup_ssh_agent has
\* returned, also when ssh-add raised.
C4_AskpassScriptRemoved ==
    pc = "ready" => AskpassScript \notin files

\* C5: a strategy whose tool is absent is skipped: its unlock command is never
\* invoked and the cascade goes on to the next strategy.
C5_AbsentToolSkipped ==
    \A i \in 1..Len(calls) : \A k \in 2..Len(UnlockCmds) :
       (calls[i].cmd = ProbeCmds[k] /\ calls[i].ev = "absent") =>
          /\ ~AttemptedBy(k, Len(calls))
          /\ i = Len(calls) =>
               IF k < Len(UnlockCmds)
               THEN pc = PcOf[k + 1] /\ setupResult = "none"
               ELSE pc = "ready" /\ setupResult = "false"

\* C5 witness: sshpass was found absent and expect was then attempted.
C5_Witness ==
    /\ AbsentBy(2, Len(calls))
    /\ AttemptedBy(3, Len(calls))

\* C6: a failure or an exception inside one strategy does not end the cascade:
\* the next strategy is up, and a bootstrap that returns without any success
\* has gone through all four strategies.
C6_FailureDoesNotAbort ==
    /\ \A i \in 1..Len(calls) :
         (IsUnlock(calls[i]) /\ ~Succeeded(calls[i])
            /\ Strategy(calls[i].cmd) < Len(UnlockCmds) /\ i = Len(calls))
          => (pc = PcOf[Strategy(calls[i].cmd) + 1] /\ setupResult = "none")
    /\ (pc = "ready" /\ AgentStarted /\ NoSuccess)
          => \A k \in 1..Len(UnlockCmds) :
                AttemptedBy(k, Len(calls)) \/ AbsentBy(k, Len(calls))

\* C6 witness: askpass raised, sshpass exited nonzero, expect was attempted.
C6_Witness ==
    /\ \E i \in 1..Len(calls) :
         calls[i].cmd = UnlockCmds[1] /\ Outcome(1, calls[i].ev) = "exception"
    /\ \E i \in 1..Len(calls) :
         calls[i].cmd = UnlockCmds[2] /\ Outcome(2, calls[i].ev) = "failure"
    /\ AttemptedBy(3, Len(calls))

\* C7: constructed for 'gadi' with GADI_USER, GADI_KEY and SCRIPTS_DIR set and
\* no passphrase, the runner starts no agent, attempts no unlock, stays in
\* remote mode and passes the key with -i.
C7_NoPassphraseNoBootstrap ==
    (/\ pc # "new"
     /\ argHpcSystem = "gadi"
     /\ HpcVarsSet(EnvGet(osEnv, "GADI_USER"), EnvGet(osEnv, "GADI_KEY"),
                   EnvGet(osEnv, "SCRIPTS_DIR"))
     /\ ~Truthy(EnvGet(osEnv, "GADI_KEY_PASSPHRASE")))
       => /\ pc = "ready"
          /\ calls = << >>
          /\ agents = {}
          /\ setupResult = "none"
          /\ hpc_system = "gadi"
          /\ ssh_cmd # << >> =>
               \E i \in 1..(Len(ssh_cmd) - 1) :
                  ssh_cmd[i] = << "-i" >> /\ ssh_cmd[i + 1] = gadi_key

\* C7 witness: such a runner has issued a remote command.
C7_Witness ==
    /\ argHpcSystem = "gadi"
    /\ hpc_system = "gadi"
    /\ ~Truthy(gadi_key_passphrase)
    /\ ssh_cmd # << >>
    /\ Runnable(ssh_cmd)

\* C8: when ssh-agent cannot be started, or its announcement holds no parsable
\* socket and process id, the bootstrap has failed and no unlock strategy is
\* probed or attempted.
C8_AgentStartError ==
    (AgentStartFailed \/ (AgentStarted /\ ~Parsable(agent_output)))
       => /\ pc = "ready"
          /\ setupResult = "false"
          /\ \A i \in 1..Len(calls) : ~IsUnlock(calls[i]) /\ ~IsProbe(calls[i])

\* C9: once _setup_ssh_agent has returned success, SSH_AUTH_SOCK and
\* SSH_AGENT_PID are set to the socket and pid of the agent this run started.
C9_AmbientAgentSession ==
    setupResult = "true"
       => /\ EnvGet(osEnv, "SSH_AUTH_SOCK") = ThisAgentSock
          /\ EnvGet(osEnv, "SSH_AGENT_PID") = ThisAgentPid

\* C10: for a runner whose HPC variables are set, execute_ssh_command leaves
\* out the -i key argument if and only if the bootstrap of this run returned an
\* unlocked agent session; in every other state it passes -i.
C10_AgentIffUnlocked ==
    (ssh_cmd # << >> /\ HpcVarsSet(gadi_user, gadi_key, scripts_dir))
       => (~HasKeyArg(ssh_cmd) <=> setupResult = "true")

\* The key argument of an ssh command line: what follows -i.
KeyArgs(cmd) == { cmd[i + 1] : i \in { j \in 1..(Len(cmd) - 1) : cmd[j] = << "-i" >> } }

\* GADI_KEY as the environment gives it.
EnvKey == EnvGet(osEnv, "GADI_KEY")

\* The HPC system is asked for and the environment names user, key and
\* scripts directory.
HpcAsked ==
    /\ argHpcSystem = "gadi"
    /\ HpcVarsSet(EnvGet(osEnv, "GADI_USER"), EnvKey, EnvGet(osEnv, "SCRIPTS_DIR"))

\* C11: on a runner asked for the HPC system, whenever GADI_KEY is inline key content or the path of an existing
\* file, every key argument given to ssh-add by an unlock strategy and every
\* key argument given to ssh with -i is the path of a key file (a file that
\* exists while the bootstrap that uses it runs) and never the key content.
C11_KeyArgIsPath ==
    (HpcAsked /\ EnvKey \in {KeyContent, KeyPath}) =>
        /\ \A i \in 1..Len(calls) :
              IsUnlock(calls[i]) =>
                  /\ ~StartsWith(calls[i].arg, "-----BEGIN")
                  /\ pc # "ready" => calls[i].arg \in files
        /\ \A k \in KeyArgs(ssh_cmd) :
              /\ ~StartsWith(k, "-----BEGIN")
              /\ k \in files

\* C12: when GADI_KEY is the path of a file, every unlock strategy is invoked
\* with exactly that path and the file stays on disk, during the bootstrap,
\* on each of its exits, and after agent cleanup.
C12_PathKeyUntouched ==
    EnvKey = KeyPath =>
        /\ KeyPath \in files
        /\ \A i \in 1..Len(calls) : IsUnlock(calls[i]) => calls[i].arg = KeyPath

\* A bootstrap on a path key that tried an unlock, returned, and was followed
\* by a cleanup that killed the agent.
C12_Witness ==
    /\ EnvKey = KeyPath
    /\ pc = "ready"
    /\ \E i \in 1..Len(calls) : IsUnlock(calls[i])
    /\ killed # {}

\* C13: when the HPC system is asked for, with user and scripts directory
\* named, and with a GADI_KEY that is neither the
\* path of an existing file nor key content, no agent is started, no unlock is
\* attempted and no remote command is issued.
C13_InvalidCredentialRejected ==
    (HpcAsked /\ EnvKey = KeyPathMissing) =>
        /\ agents = {}
        /\ calls = << >>
        /\ ssh_cmd = << >>

\* The three failures of one remote command, by what the transport did.
Failure(ev) ==
    CASE ev.cause = "timeout" -> "timeout"
      [] ev.cause = "auth" -> "connection or authentication failure"
      [] ev.cause = "remote" /\ ev.rc # 0 -> "nonzero exit of the remote command"
      [] OTHER -> "none"

Failures == { "timeout", "connection or authentication failure",
              "nonzero exit of the remote command" }

\* C14: the value execute_ssh_command returns tells a timeout, a connection
\* or authentication failure and a nonzero exit of the remote command apart:
\* no other of these failures would have returned the same value.
C14_FailuresDistinguishable ==
    (ssh_cmd # << >> /\ Failure(ssh_ev) \in Failures) =>
        \A e \in TransportEvents("command") :
            (Failure(e) \in Failures /\ SshReturn(e) = ssh_ret) =>
                Failure(e) = Failure(ssh_ev)

\* C15: execute_ssh_command returns a triple whatever the transport does, and
\* when ssh ran to its end the triple is its exit code, stdout and stderr as
\* they are, a nonzero exit code included.
C15_ReturnsTransportResult ==
    ssh_cmd # << >> =>
        /\ Len(ssh_ret) = 3
        /\ ssh_ev.cause \in {"remote", "auth"} =>
               ssh_ret = << ssh_ev.rc, ssh_ev.out, ssh_ev.err >>

\* A remote command that ran and exited nonzero, returned as data.
C15_Witness ==
    /\ ssh_cmd # << >>
    /\ ssh_ev.cause = "remote"
    /\ ssh_ev.rc # 0
    /\ ssh_ret[1] = ssh_ev.rc

---------------------------------------------------------------------------
(* Claims on submit_job *)

BackupOk == Ev("remote", 0, None, None)

\* The transport's answer to the n-th command of the last submit_job.
Answer(n) == IF n <= Len(remote) THEN remote[n].ev ELSE NotIssued

Kinds(log) == [i \in 1..Len(log) |-> log[i].kind]

\* A line ends in the scheduler's suffix.
HasSuffix(line) == line # << >> /\ line[Len(line)] = ".gadi-pbs"

\* C16: when the upload command of submit_job fails, submit_job returns
\* 'upload_failed' with an empty job id and a message that ends in the error
\* the transport gave, and the upload is the last command it issued: no submit
\* command and no status query.
C16_UploadFailed ==
    (submits > 0 /\ remote[2].ret[1] # 0) =>
        /\ result[1] = "upload_failed"
        /\ result[2] = << >>
        /\ result[3] = << "Failed to upload PBS script: " >> \o remote[2].ret[3]
        /\ remote[2].ev.cause = "timeout" => Contains(result[3], "SSH command timed out")
        /\ remote[2].ev.cause = "remote" => result[3] = << result[3][1] >> \o remote[2].ev.err
        /\ Kinds(remote) = << "backup", "upload" >>

\* An upload that timed out.
C16_Witness ==
    /\ submits > 0
    /\ remote[2].kind = "upload"
    /\ remote[2].ev.cause = "timeout"
    /\ result[1] = "upload_failed"

\* C17: when the backup command of submit_job fails, the upload is still
\* issued, the submit command is still issued after an upload that succeeded,
\* and submit_job issues the commands and returns the value it would have with
\* a backup that succeeded and the same answers to the other commands.
C17_BackupFailureIgnored ==
    (submits > 0 /\ remote[1].ret[1] # 0) =>
        LET same == SubmitRun(RecipeName, BackupOk, Answer(2), Answer(3), Answer(4)) IN
        /\ Len(remote) >= 2
        /\ remote[2].kind = "upload"
        /\ remote[2].ret[1] = 0 => (Len(remote) >= 3 /\ remote[3].kind = "submit")
        /\ result = same.ret
        /\ Kinds(remote) = Kinds(same.log)

\* A job submitted although the backup failed.
C17_Witness ==
    /\ submits > 0
    /\ remote[1].kind = "backup"
    /\ remote[1].ret[1] # 0
    /\ result[1] = "submitted"

\* The lines of what the submit command printed, as submit_job reads them.
SubmitOutput == Strip(remote[3].ret[2])

\* C18: every submit_job issues its remote commands in the order backup,
\* upload, submit, status query, stopping after any of the last three: the
\* upload comes after the backup was attempted, the submit command only after
\* an upload that returned 0, and the status query only after a submit command
\* that returned 0 with the scheduler suffix in its output, a job id being
\* returned.
C18_CommandOrder ==
    submits > 0 =>
        /\ Len(remote) \in 2..4
        /\ Kinds(remote) = SubSeq(<< "backup", "upload", "submit", "status" >>, 1, Len(remote))
        /\ Len(remote) >= 3 => remote[2].ret[1] = 0
        /\ Len(remote) = 4 =>
              /\ remote[3].ret[1] = 0
              /\ \E i \in 1..Len(SubmitOutput) : Contains(SubmitOutput[i], ".gadi-pbs")
              /\ result[2] # << >>

\* A submit_job that issued all four commands.
C18_Witness ==
    /\ submits > 0
    /\ Len(remote) = 4
    /\ remote[4].kind = "status"

\* C19: after a submit command that returned 0, submit_job returns 'submitted'
\* exactly when the final line of the submit output ends in '.gadi-pbs', the
\* job id is then that line, the status is 'submission_failed' when no line
\* ends in the suffix, and a job id that is returned ends in the suffix.
C19_JobIdFromFinalLine ==
    (submits > 0 /\ Len(remote) >= 3 /\ remote[3].ret[1] = 0) =>
        LET final == IF SubmitOutput = << >> THEN << >>
                     ELSE SubmitOutput[Len(SubmitOutput)] IN
        /\ result[1] = "submitted" <=> HasSuffix(final)
        /\ result[1] = "submitted" => result[2] = final
        /\ (\A i \in 1..Len(SubmitOutput) : ~HasSuffix(SubmitOutput[i]))
              => result[1] = "submission_failed"
        /\ result[2] # << >> => HasSuffix(result[2])

\* The status query failed: the transport failed, timed out, the command exited
\* nonzero, or nothing was printed.
StatusQueryFailed(q) ==
    \/ q.ev.cause \in {"timeout", "exception", "auth"}
    \/ q.ret[1] # 0
    \/ Strip(q.ret[2]) = << >>

\* C20: when submit_job has issued the status query, it returns 'submitted'
\* with the job id parsed from the submit output, and the initial status
\* 'unknown' whenever the status query failed.
C20_StatusFailureUnknown ==
    (submits > 0 /\ Len(remote) = 4) =>
        /\ result[1] = "submitted"
        /\ result[2] = SubmitOutput[Len(SubmitOutput)]
        /\ StatusQueryFailed(remote[4]) => result[3] = << << "unknown" >> >>

---------------------------------------------------------------------------
(* Claims on script generation *)

SameArguments(a, b) ==
    /\ a.recipe_name = b.recipe_name
    /\ DOMAIN a.config = DOMAIN b.config
    /\ a.config = b.config
    /\ a.version = b.version
    /\ a.conda_module = b.conda_module

C29_PathResolutionError ==
    \A i \in 1..Len(generated) :
        (/\ generated[i].version = << >>
         /\ ~(custom_recipe_dir # << >> /\ custom_recipe_dir \in files)
         /\ RequiredKeys \subseteq DOMAIN generated[i].config)
            => generated[i].out.raised

\* main() has exited.
Exited == pc = "exited"

\* The value of a key of the profile is missing or empty.
Unset(config, key) == key \notin DOMAIN config \/ config[key] = << >>

\* A script was rendered from the profile.
Rendered(config) ==
    \E i \in 1..Len(generated) :
       generated[i].config = config /\ ~generated[i].out.raised

\* C25: a resource profile whose queue, memory or walltime is missing or empty
\* is rejected before use: no batch script is rendered from it and no upload
\* or submit command is issued for it.
C25_ProfileRejected ==
    (Exited /\ run_in.config_json.parses
       /\ \E key \in {"queue", "memory", "walltime"} :
             Unset(run_in.config_json.config, key))
    => ~Rendered(run_in.config_json.config) /\ remote = << >>

\* C27: every agent process the bootstrap started has been sent a termination
\* request when main() exits, whichever way the run ended.
C27_AgentsTerminated == Exited => agents \subseteq killed

\* The line is among those written to the results sink.
Written(line) == \E i \in 1..Len(sink) : sink[i] = line

\* C28: every way a run started through main() ends is reported to the
\* results sink with its status string: the status run() returned, or 'error'
\* with job_submitted=false when an exception occurred; job_submitted=true is
\* written if and only if the status is 'submitted', and then with the job id.
C28_OutcomeReported ==
    Exited =>
       /\ Written(<< "status=", IF run_ret.raised THEN "error" ELSE run_ret.status >>)
       /\ Written(<< "job_submitted=", "true" >>) <=> run_ret.status = "submitted"
       /\ run_ret.status = "submitted" => Written(<< "job_id=" >> \o run_ret.job_id)
       /\ run_ret.status # "submitted" => Written(<< "job_submitted=", "false" >>)

\* C30: in dry-run mode run() neither calls submit_job nor issues a remote
\* command, in remote and in local mode, and the pair it returns has an empty
\* job id.
C30_DryRunSubmitsNothing ==
    (Exited /\ run_in.mode = "dry-run")
    => /\ submits = 0
       /\ remote = << >>
       /\ ssh_cmd = << >>
       /\ ~run_ret.raised => run_ret.job_id = None

\* A dry run in remote mode that printed its script and returned.
C30_Witness ==
    /\ Exited
    /\ run_in.mode = "dry-run"
    /\ hpc_system = "gadi"
    /\ run_ret.status = "dry-run"
    /\ Rendered(run_in.config_json.config)

\* _execute_notebook has returned its result.
Tested == pc = "tested"

\* The notebook's job was accepted and the scheduler answers as `polls` says.
Monitored(polls) ==
    Tested /\ nb_result.status = "submitted" /\ nb_result.polls = polls

\* C21: monitoring a job whose status query never reports a terminal state
\* ends with the timed-out status once the timeout has passed, and the result
\* says so: a timeout, not a failure reported by the scheduler.
C21_MonitorTimesOut ==
    Monitored(<< "running" >>)
    => nb_result.result.error_message =
          << "Job timeout after ",
             Seconds(Timeouts[nb_result.complexity] + 300), "s" >>

\* C22: one status poll that fails in the transport is retried and does not
\* make the monitored job a failed one: the job that completes behind it is
\* reported as completed.
C22_FailedPollRetried ==
    Monitored(<< "transport error", "completed" >>)
    => nb_result.result.success /\ nb_result.queries = 2

\* C23: for the poll sequence queued, running, running, completed the monitor
\* returns completed, having issued these four status queries and no more.
C23_FirstTerminalStatus ==
    Monitored(<< "queued", "running", "running", "completed" >>)
    => nb_result.result.success /\ nb_result.queries = 4

\* C26: once the runner is in local mode no operation issues a remote
\* command: nothing is backed up, uploaded or submitted through
\* execute_ssh_command.
C26_LocalIssuesNoRemoteCommand ==
    hpc_system = "local" => remote = << >> /\ ssh_cmd = << >>

\* The unlock command that made the bootstrap return success.
Unlocking == calls[Len(calls)]

\* C31: the bootstrap reports success only if the ssh-add of some strategy
\* added the identity to the agent; the expect-driven strategy reports failure
\* when ssh-add ends without printing 'Identity added'.
C31_SuccessMeansIdentityAdded ==
    setupResult = "true" => (IsUnlock(Unlocking) /\ Unlocking.ev = "added")

\* C32: cleanup_ssh_agent terminates only an agent process that the bootstrap
\* of this runner started, never a process named by an SSH_AGENT_PID that was
\* in the environment before the run.
C32_CleanupKillsOwnAgentOnly == killed \subseteq agents

\* The results that run_notebook_tests holds for notebook n.
ResultsOf(n) == { k \in 1..Len(results) : results[k].notebook = n }

\* C33: with continue_on_error true, run_notebook_tests returns exactly one
\* result for every notebook of the matrix, whatever its complexity label and
\* whether its execution succeeds, fails or raises.
C33_OneResultPerNotebook ==
    (pc = "reported" /\ continue_on_error)
    => \A n \in 1..Len(matrix) : Cardinality(ResultsOf(n)) = 1

\* C34: with continue_on_error false, no notebook is run after the first one
\* that fails or raises: a result without success is the last result, in its
\* batch, in the later batches and in the later complexity groups.
C34_StopsAtFirstFailure ==
    (pc \in {"tests", "reported"} /\ ~continue_on_error)
    => \A k \in 1..Len(results) : ~results[k].success => k = Len(results)

C36_SubmitResultShape ==
    submits > 0 =>
       /\ result[1] \in {"submitted", "upload_failed", "submission_failed"}
       /\ result[2] # None <=> result[1] = "submitted"

\* A submission whose output has the job id line followed by another line:
\* the status is 'submitted' and the id returned is that last line.
C36_Witness ==
    /\ submits > 0
    /\ result[1] = "submitted"
    /\ result[2] # None
    /\ result[2] # JobIdLine

\* The constructor is running: __init__ or the _setup_ssh_agent it calls.
Constructing == pc \in {"new", "prepare_key", "start_agent"} \/ \E k \in 1..Len(PcOf) : pc = PcOf[k]

\* C37: the execution mode is decided once: hpc_system changes only inside
\* the constructor, from 'gadi' to 'local' once it has been given its value,
\* it never changes from 'local' to 'gadi', and no operation of the
\* constructed runner changes it.
C37_ModeDecidedOnce ==
    [][/\ ~Constructing => hpc_system' = hpc_system
       /\ hpc_system = "local" => hpc_system' = "local"
       /\ (hpc_system # "unset" /\ hpc_system' # hpc_system)
             => (hpc_system = "gadi" /\ hpc_system' = "local")]_vars

\* A runner that fell back to local mode when its bootstrap failed, after
\* execute_ssh_command and cleanup_ssh_agent have run on it.
C37_Witness ==
    /\ pc = "ready"
    /\ argHpcSystem = "gadi"
    /\ setupResult = "false"
    /\ hpc_system = "local"
    /\ ssh_cmd # << >>
    /\ killed # {}

\* should_regenerate_config has just returned, run having regenerated and
\* saved the configuration before.
AskedAfterSave == pc = "cache" /\ regen_call.called /\ snapshot.saved

\* The configuration file is there and can be read.
ConfigIntact == config_file.exists /\ config_file.readable

\* What the process can tell of the recipe directory: the paths, and of each
\* file its content if it can read it.
Legible(dir) ==
    [p \in DOMAIN dir |-> IF dir[p].readable
                          THEN << "readable" >> \o dir[p].content
                          ELSE << "unreadable" >>]

\* C38 as stated: after run has regenerated and saved the configuration,
\* should_regenerate_config returns False as long as no recipe file is added,
\* removed or changed, and True after any such change, when the configuration
\* file is missing or unreadable, or when force is set.
C38_CacheRoundTrip ==
    AskedAfterSave
    => (regen_call.ret <=>
          (regen_call.force \/ ~ConfigIntact \/ recipes # snapshot.recipes))

\* C38 amended: the same, a change being one the process can see: a recipe
\* path added or removed, or a change of what it can read of a recipe file.
C38_CacheRoundTripLegible ==
    AskedAfterSave
    => (regen_call.ret <=>
          (regen_call.force \/ ~ConfigIntact
             \/ Legible(recipes) # Legible(snapshot.recipes)))

\* The round trip: the saved configuration is found up to date, the recipe
\* directory holding the files it held at the save.
C38_Witness ==
    /\ AskedAfterSave
    /\ ~regen_call.force
    /\ ConfigIntact
    /\ DOMAIN recipes # {}
    /\ recipes = snapshot.recipes
    /\ changes > 0
    /\ ~regen_call.ret

=============================================================================
